---- MODULE Spec2Model ----
(***************************************************************************)
(* Batch email dispatch of ParamountIT/email.                              *)
(*                                                                         *)
(* Two engines share one design: the event-driven engine                   *)
(* (src/lambda/src/lambda_function.py, "lambda") and the direct invocation *)
(* (src/send_emails.py, "direct").  A run loads the recipient table and    *)
(* the opt-out list, validates the template against the columns, marks     *)
(* opted-out records skipped, sends to the remaining ones up to the limit  *)
(* and writes the whole table back.                                        *)
(*                                                                         *)
(* Text is modelled by what the code does with it: an email address is a   *)
(* sequence of characters (lower() and the '@' / '.' tests work on the     *)
(* characters), a template is a sequence of tokens (tags, text and         *)
(* {name} placeholders), a table cell is a string and the empty cell is    *)
(* "".  pandas reads an empty cell as NaN and the cells of a numeric       *)
(* column as numbers; csv.DictReader reads every cell as text.             *)
(*                                                                         *)
(* Specifications: Spec (runs one after the other), SpecOne (one run),     *)
(* SpecOneFair (one run that is left to run), SpecCells (one run over      *)
(* tables with numeric and empty data cells), SpecInt (runs that may be    *)
(* stopped from outside), SpecTwo (two invocations at the same time) and   *)
(* SpecText (the template processor on its own: subject extraction,        *)
(* validation and rendering as functions).                                 *)
(***************************************************************************)
EXTENDS Integers, Sequences, FiniteSets, TLC

\* ------------------------------------------------------------------ bounds
MaxRows == 2      \* rows of the recipient table
MaxSkip == 1      \* entries of the opt-out list
MaxLimit == 2     \* largest per-run limit
MaxRuns == 2      \* runs started in one behaviour

\* ------------------------------------------------------------- characters
\* str.lower() on one character (the alphabet of the modelled addresses).
LowerChar(c) == IF c = "A" THEN "a" ELSE IF c = "B" THEN "b" ELSE c

\* str.lower(): every character lower-cased, length and order kept.
Lower(s) == [i \in DOMAIN s |-> LowerChar(s[i])]

\* The addresses of the model: a@x.y, its upper-case spelling A@x.y, b@x.y,
\* and b@x, whose domain part has no '.'.
Addr_a == <<"a", "@", "x", ".", "y">>
Addr_A == <<"A", "@", "x", ".", "y">>
Addr_b == <<"b", "@", "x", ".", "y">>
Addr_bad == <<"b", "@", "x">>
Addresses == {Addr_a, Addr_A, Addr_b, Addr_bad}
SkipAddresses == {Addr_a, Addr_A, Addr_b}

\* Positions of '@' in an address.
AtPositions(s) == {i \in DOMAIN s : s[i] = "@"}

Min(S) == CHOOSE x \in S : \A y \in S : x <= y

\* addr.split('@')[1]: the characters after the first '@' up to the next '@'
\* (or the end).  Only used when the address has an '@'.
DomainPart(s) ==
    LET first == Min(AtPositions(s))
        later == {i \in AtPositions(s) : i > first}
        stop == IF later = {} THEN Len(s) + 1 ELSE Min(later)
    IN  SubSeq(s, first + 1, stop - 1)

\* Variant of IsValidAddress: the '.' of the domain part is not required.
IsValidAddressAtOnly(s) ==
    /\ s # <<>>
    /\ AtPositions(s) # {}

\* The address test of send_email: parseaddr leaves a bare address as it is;
\* the address must be non-empty, hold an '@' and a '.' after it.
IsValidAddress(s) ==
    /\ s # <<>>
    /\ AtPositions(s) # {}
    /\ \E i \in DOMAIN DomainPart(s) : DomainPart(s)[i] = "."

\* -------------------------------------------------------------- templates
\* A token is <<kind, text>>: a tag <text>, text, a placeholder {text} or a
\* line break.
Tag(t) == <<"tag", t>>
Txt(t) == <<"txt", t>>
Ph(t) == <<"ph", t>>

TplPlain == <<Tag("h1"), Txt("Welcome"), Tag("/h1"), Txt("Join us")>>
TplEvent == <<Tag("h1"), Txt("Hello "), Ph("event"), Tag("/h1"), Ph("event")>>
Templates == <<TplPlain, TplEvent>>

DefaultSubject == <<Txt("Email from Rise Portraits")>>

\* Layout tokens: a blank and a line break.
Sp == <<"txt", " ">>
Nl == <<"nl", "n">>

\* The spellings of an opening and a closing tag that the pattern accepts.
\* tolerant: '<h1[^>]*>' with re.IGNORECASE accepts attributes and either
\* letter case; otherwise '<h1>' is matched as written.
OpenSpellings(name, tolerant) ==
    IF ~tolerant THEN {name}
    ELSE IF name = "h1" THEN {"h1", "H1", "h1 class=t"}
    ELSE {"title", "TITLE", "title class=t"}

CloseSpellings(name, tolerant) ==
    IF ~tolerant THEN {"/" \o name}
    ELSE IF name = "h1" THEN {"/h1", "/H1"}
    ELSE {"/title", "/TITLE"}

IsOpen(tok, name, tolerant) == tok[1] = "tag" /\ tok[2] \in OpenSpellings(name, tolerant)
IsClose(tok, name, tolerant) == tok[1] = "tag" /\ tok[2] \in CloseSpellings(name, tolerant)

\* Where '(.*?)</name>' stops when started after position o: '.' does not
\* match a line break (no re.DOTALL), so the lazy group ends at the first
\* closing tag or line break, whichever comes first; 0 if neither follows.
FirstStop(html, name, tolerant, o) ==
    LET S == {i \in (o + 1)..Len(html) : IsClose(html[i], name, tolerant) \/ html[i] = Nl}
    IN  IF S = {} THEN 0 ELSE Min(S)

\* re.search('<name...>(.*?)</name>'): the leftmost opening tag from which
\* the pattern matches, and the tokens up to its closing tag; <<"none">> if
\* the pattern matches nowhere.
NoMatch == <<"none">>
SearchElement(html, name, tolerant) ==
    LET opens == {o \in DOMAIN html :
                     /\ IsOpen(html[o], name, tolerant)
                     /\ FirstStop(html, name, tolerant, o) # 0
                     /\ IsClose(html[FirstStop(html, name, tolerant, o)], name, tolerant)}
    IN  IF opens = {} THEN NoMatch
        ELSE LET o == Min(opens)
             IN  <<"match", SubSeq(html, o + 1, FirstStop(html, name, tolerant, o) - 1)>>

\* str.strip(): the blanks and line breaks at both ends removed.
IsSpace(tok) == tok = Sp \/ tok = Nl
RECURSIVE Strip(_)
Strip(text) ==
    IF text = <<>> THEN <<>>
    ELSE IF IsSpace(Head(text)) THEN Strip(Tail(text))
    ELSE IF IsSpace(text[Len(text)]) THEN Strip(SubSeq(text, 1, Len(text) - 1))
    ELSE text

\* lambda_function._extract_subject_from_template: h1, else title, else default.
ExtractSubjectLambda(html) ==
    IF SearchElement(html, "h1", TRUE) # NoMatch
    THEN Strip(SearchElement(html, "h1", TRUE)[2])
    ELSE IF SearchElement(html, "title", TRUE) # NoMatch
    THEN Strip(SearchElement(html, "title", TRUE)[2])
    ELSE DefaultSubject

\* send_emails._extract_subject_from_template: h1 as written, or None.
ExtractSubjectDirect(html) == SearchElement(html, "h1", FALSE)

\* re.findall('\{(\w+)\}', text) as a set.
PlaceholdersOf(text) == {text[i][2] : i \in {j \in DOMAIN text : text[j][1] = "ph"}}

\* _extract_template_placeholders: the body's and the subject's placeholders.
ExtractTemplatePlaceholders(html, subject) ==
    PlaceholdersOf(html) \cup (IF subject # <<>> THEN PlaceholdersOf(subject) ELSE {})

SystemColumns == {"email", "sent_status", "send_date"}

\* Variant of MissingColumns: the managed columns satisfy a placeholder.
MissingColumnsWithSystem(placeholders, csv_columns) ==
    placeholders \ csv_columns

\* Variant of MissingColumns: the operands of the difference swapped.
MissingColumnsSwapped(placeholders, csv_columns) ==
    (csv_columns \ SystemColumns) \ placeholders

\* _validate_template_placeholders: the placeholders no data column provides.
MissingColumns(placeholders, csv_columns) ==
    placeholders \ (csv_columns \ SystemColumns)

\* sorted(names): the names in code-point order.
NameOrder == <<"email", "event", "name", "send_date", "sent_status">>
SortedNames(S) == LET In(n) == n \in S IN SelectSeq(NameOrder, In)

\* _validate_template_placeholders as a function: it raises ValueError with
\* the sorted missing and the sorted available names, or returns.
NoError == [raised |-> FALSE, missing |-> <<>>, available |-> <<>>]
ValidateTemplatePlaceholders(placeholders, csv_columns) ==
    IF MissingColumns(placeholders, csv_columns) # {}
    THEN [raised |-> TRUE,
          missing |-> SortedNames(MissingColumns(placeholders, csv_columns)),
          available |-> SortedNames(csv_columns \ SystemColumns)]
    ELSE NoError

\* A field value is text (a token sequence) or None, the value csv.DictReader
\* gives the missing cells of a short row.
PyNone == <<<<"none", "None">>>>

\* str(value): text stays, None becomes the text "None".
Str(v) == IF v = PyNone THEN <<Txt("None")>> ELSE v

\* row_data.get(name, default).
RowGet(row_data, name, default) ==
    IF name \in DOMAIN row_data THEN row_data[name] ELSE default

\* Variant of ReplaceAll: only the first occurrence is replaced.
RECURSIVE ReplaceFirst(_, _, _)
ReplaceFirst(text, name, value) ==
    IF text = <<>> THEN <<>>
    ELSE IF Head(text) = Ph(name) THEN value \o Tail(text)
    ELSE <<Head(text)>> \o ReplaceFirst(Tail(text), name, value)

\* result.replace('{' + name + '}', value): every occurrence, left to right.
RECURSIVE ReplaceAll(_, _, _)
ReplaceAll(text, name, value) ==
    IF text = <<>> THEN <<>>
    ELSE (IF Head(text) = Ph(name) THEN value ELSE <<Head(text)>>)
         \o ReplaceAll(Tail(text), name, value)

\* The orders in which `for placeholder in self.template_placeholders` can
\* visit a set of names: the iteration order of a set of str is not fixed.
IterationOrders(S) ==
    {o \in [1..Cardinality(S) -> S] : \A x \in S : \E i \in DOMAIN o : o[i] = x}

\* _replace_template_placeholders, the placeholders visited in `order`.
RECURSIVE ReplaceTemplatePlaceholders(_, _, _)
ReplaceTemplatePlaceholders(template_text, row_data, order) ==
    IF order = <<>> THEN template_text
    ELSE ReplaceTemplatePlaceholders(
             ReplaceAll(template_text, Head(order), Str(RowGet(row_data, Head(order), <<>>))),
             row_data, Tail(order))

\* send_email, lines 131-137: the subject falls back to the default when the
\* extracted one is empty; nothing is replaced when there is no placeholder.
PrepareSubject(subject_template, row_data, order) ==
    LET subject == IF subject_template # <<>> THEN subject_template ELSE DefaultSubject
    IN  IF order # <<>> THEN ReplaceTemplatePlaceholders(subject, row_data, order)
        ELSE subject

PrepareBody(html_template, row_data, order) ==
    IF order # <<>> THEN ReplaceTemplatePlaceholders(html_template, row_data, order)
    ELSE html_template


\* ------------------------------------------------------------------ tables
\* A stored table is a header (the column names) and rows mapping every
\* column to a cell.  The tracking columns are always in the header here.
NaN == "NaN"                  \* pandas' value for an empty cell
OldStamp == "t0"              \* send_date written by a run before the behaviour
Stamps == <<"t1", "t2", "t3", "t4">>
EventCells == {"Gala"}
Headers == {SystemColumns, SystemColumns \cup {"event"}}
Engines == {"lambda", "direct"}
Limits == (0 - 1)..MaxLimit

InitRow(h, e, s, v) ==
    [c \in h |-> CASE c = "email" -> e
                   [] c = "sent_status" -> s
                   [] c = "send_date" -> (IF s = "" THEN "" ELSE OldStamp)
                   [] OTHER -> v]

InitRows(h) == {InitRow(h, e, s, v) : e \in Addresses, s \in {"", "sent"}, v \in EventCells}

InitTables ==
    UNION {{[header |-> h, rows |-> rws] :
               rws \in UNION {[1..n -> InitRows(h)] : n \in 0..MaxRows}} : h \in Headers}

\* The opt-out lists: up to MaxSkip distinct addresses, in one fixed order.
SkipOrder == <<Addr_a, Addr_A, Addr_b>>
SkipFileOf(S) == LET In(e) == e \in S IN SelectSeq(SkipOrder, In)
InitSkipFiles ==
    {SkipFileOf(S) : S \in {T \in SUBSET SkipAddresses : Cardinality(T) <= MaxSkip}}

VARIABLES
    table,      \* the stored recipient table
    skipFile,   \* the stored opt-out list: a sequence of addresses
    cfg,        \* engine, limit and template of the behaviour
    run,        \* per invocation: the state of its current run
    prev,       \* the final state of the run before the current one
    runs,       \* number of runs started
    tp          \* the template processor used on its own: an EmailSender
                \* built from a template, and the calls made on it

vars == <<table, skipFile, cfg, run, prev, runs, tp>>

Procs == {"p1", "p2"}

\* ------------------------------------------------------------ load, save
\* _load_csv_from_s3: csv.DictReader keeps every cell as text.
LoadCsvLambda(t) == t.rows

\* The texts read_csv parses as integers, and the number each one stands
\* for: kept in memory behind a '#', an int64 as #7, a float64 as #7.0.
NumberTexts == {"007"}
AsInt(x) == CASE x = "007" -> "#7"
AsFloat(x) == CASE x = "007" -> "#7.0"
Numbers == {AsInt(x) : x \in NumberTexts} \cup {AsFloat(x) : x \in NumberTexts}

\* str(number), as to_csv writes it.
NumberStr(v) == CASE v = "#7" -> "7" [] v = "#7.0" -> "7.0"

\* The dtype read_csv gives a column: the tracking columns are read as
\* str; a data column whose filled cells all parse as integers becomes
\* int64, or float64 when it has empty cells too; any other text makes it
\* object.  (The addresses of the model are never numbers.)
ColumnKind(t, c) ==
    LET cells == {t.rows[i][c] : i \in DOMAIN t.rows}
    IN  IF c \in SystemColumns THEN "str"
        ELSE IF cells \ {""} = {} THEN "empty"
        ELSE IF cells \ {""} \subseteq NumberTexts
        THEN (IF "" \in cells THEN "float64" ELSE "int64")
        ELSE "object"

\* _load_email_list: pandas reads an empty cell as NaN and the cells of a
\* numeric column as numbers.
LoadEmailListDirect(t) ==
    [i \in DOMAIN t.rows |->
        [c \in DOMAIN t.rows[i] |->
            IF c = "email" THEN t.rows[i][c]
            ELSE IF t.rows[i][c] = "" THEN NaN
            ELSE IF ColumnKind(t, c) = "int64" THEN AsInt(t.rows[i][c])
            ELSE IF ColumnKind(t, c) = "float64" THEN AsFloat(t.rows[i][c])
            ELSE t.rows[i][c]]]

LoadTable(engine, t) ==
    IF engine = "lambda" THEN LoadCsvLambda(t) ELSE LoadEmailListDirect(t)

\* _load_skip_list_from_s3: {row['email'].lower() for row in reader}.
\* Variant: the addresses are kept as written.
LoadSkipListLambdaNoLower(f) == {f[i] : i \in DOMAIN f}

LoadSkipListLambda(f) == {Lower(f[i]) : i \in DOMAIN f}

\* _load_skip_list: set(skip_df["email"]), the addresses as written.
LoadSkipListDirect(f) == {f[i] : i \in DOMAIN f}

LoadSkipList(engine, f) ==
    IF engine = "lambda" THEN LoadSkipListLambda(f) ELSE LoadSkipListDirect(f)

\* The key looked up in the opt-out set: row['email'].lower() in the
\* event-driven engine, the address as written in isin() of the direct one.
SkipKeyLambda(e) == Lower(e)
SkipKeyDirect(e) == e
SkipKey(engine, e) == IF engine = "lambda" THEN SkipKeyLambda(e) ELSE SkipKeyDirect(e)

\* csv.DictWriter.writerows / DataFrame.to_csv: NaN is written as the empty
\* cell, a number as its str().
SaveRows(mem) ==
    [i \in DOMAIN mem |->
        [c \in DOMAIN mem[i] |->
            IF c = "email" THEN mem[i][c]
            ELSE IF mem[i][c] = NaN THEN ""
            ELSE IF mem[i][c] \in Numbers THEN NumberStr(mem[i][c])
            ELSE mem[i][c]]]

\* The unprocessed filter: not row.get('sent_status') or == '' ; isna() | == ''.
\* Variant: a failed row counts as unprocessed again.
IsUnprocessedOrFailed(engine, status) ==
    status = "" \/ status = NaN \/ status = "failed"

IsUnprocessed(engine, status) ==
    IF engine = "lambda" THEN status = "" ELSE (status = NaN \/ status = "")

\* Increasing sequence of the elements of a set of indices.
RECURSIVE SortedSeq(_)
SortedSeq(S) == IF S = {} THEN <<>> ELSE <<Min(S)>> \o SortedSeq(S \ {Min(S)})

\* Variant of UnprocessedIdx: the rows the filter keeps, last row first.
RECURSIVE Reversed(_)
Reversed(q) == IF q = <<>> THEN <<>> ELSE Append(Reversed(Tail(q)), Head(q))

UnprocessedIdxReversed(engine, mem) ==
    Reversed(SortedSeq({i \in DOMAIN mem : IsUnprocessed(engine, mem[i]["sent_status"])}))

\* Indices (table order) of the rows the filter keeps.
UnprocessedIdx(engine, mem) ==
    SortedSeq({i \in DOMAIN mem : IsUnprocessed(engine, mem[i]["sent_status"])})

\* seq[:n] / DataFrame.head(n): the first n for n >= 0, all but the last -n otherwise.
PyHead(seq, n) ==
    IF n >= 0 THEN SubSeq(seq, 1, IF n < Len(seq) THEN n ELSE Len(seq))
    ELSE SubSeq(seq, 1, Len(seq) + n)

\* Variant of Mark: a skipped row gets no send_date.
MarkDatingSendsOnly(mem, i, status, now) ==
    [mem EXCEPT ![i] = [@ EXCEPT !["sent_status"] = status,
                                 !["send_date"] = IF status = "skipped" THEN @ ELSE now]]

Mark(mem, i, status, now) ==
    [mem EXCEPT ![i] = [@ EXCEPT !["sent_status"] = status, !["send_date"] = now]]

\* The skip pass: rows of the unprocessed list in order; stop at the limit;
\* a row whose key is in the opt-out set is marked skipped and counted.
RECURSIVE SkipLoop(_, _, _, _, _, _)
SkipLoop(engine, st, idxs, k, skip, limit) ==
    IF k > Len(idxs) \/ st.processed_count >= limit THEN st
    ELSE IF SkipKey(engine, st.mem[idxs[k]]["email"]) \in skip
         THEN SkipLoop(engine,
                       [st EXCEPT !.mem = Mark(st.mem, idxs[k], "skipped", st.now),
                                  !.processed_count = @ + 1,
                                  !.marks = @ + 1],
                       idxs, k + 1, skip, limit)
         ELSE SkipLoop(engine, st, idxs, k + 1, skip, limit)

\* The send batch: unprocessed rows whose key is not in the opt-out set,
\* cut to the remaining limit.
RECURSIVE FilterIdx(_, _, _, _)
FilterIdx(engine, mem, idxs, skip) ==
    IF idxs = <<>> THEN <<>>
    ELSE (IF SkipKey(engine, mem[Head(idxs)]["email"]) \notin skip
          THEN <<Head(idxs)>> ELSE <<>>) \o FilterIdx(engine, mem, Tail(idxs), skip)

\* Variant: the budget of the send batch forgets the rows already skipped.
ToProcessFullLimit(engine, st, limit) ==
    PyHead(FilterIdx(engine, st.mem0, st.unprocessed, st.skip_emails), limit)

\* Variant: the send batch is cut from all unprocessed rows, opted out or not.
ToProcessUnfiltered(engine, st, limit) ==
    PyHead(st.unprocessed, limit - st.processed_count)

ToProcess(engine, st, limit) ==
    PyHead(FilterIdx(engine, st.mem0, st.unprocessed, st.skip_emails),
           limit - st.processed_count)


\* ----------------------------------------------------------------- results
NoResult ==
    [kind |-> "none", statusCode |-> 0, emails_sent |-> 0, emails_skipped |-> 0,
     total_processed |-> 0, error |-> {}, value |-> 0]

\* The 200 response of process_email_list (lambda_function.py:103-111).
Response200(emails_sent, processed_count) ==
    [NoResult EXCEPT !.kind = "response", !.statusCode = 200,
                     !.emails_sent = emails_sent,
                     !.emails_skipped = processed_count - emails_sent,
                     !.total_processed = processed_count]

\* The 500 response of the except clauses (lambda_function.py:113-120, 283-290).
Response500(err) ==
    [NoResult EXCEPT !.kind = "response", !.statusCode = 500, !.error = err]

\* return emails_sent of the direct invocation.
Returned(n) == [NoResult EXCEPT !.kind = "return", !.value = n]

\* An exception that leaves the entry point.
Escaped(err) == [NoResult EXCEPT !.kind = "exception", !.error = err]

IdleRun ==
    [pc |-> "Idle", header |-> {}, mem |-> <<>>, mem0 |-> <<>>, skip_emails |-> {},
     unprocessed |-> <<>>, to_process |-> <<>>, pos |-> 1, processed_count |-> 0,
     emails_sent |-> 0, now |-> "", calls |-> <<>>, writes |-> 0, marks |-> 0,
     failedIn |-> "", result |-> NoResult,
     table0 |-> [header |-> {}, rows |-> <<>>], interruptedIn |-> ""]

\* Where a run can end: completed, failed, declined by the operator, or
\* stopped from outside.
Terminal == {"Done", "Failed", "Aborted", "Interrupted"}

\* A fatal error in phase `phase`: the event-driven engine catches it and
\* answers 500; the direct invocation lets it propagate.
\* Variant: no except clause, the error propagates in both engines.
FatalUncaught(engine, st, phase, err) ==
    [st EXCEPT !.pc = "Failed", !.failedIn = phase, !.result = Escaped(err)]

Fatal(engine, st, phase, err) ==
    [st EXCEPT !.pc = "Failed", !.failedIn = phase,
               !.result = IF engine = "lambda" THEN Response500(err) ELSE Escaped(err)]

Html == Templates[cfg.tpl]

\* What __init__ derives from the template, once per EmailSender: the
\* subject template of each engine and the placeholders of the template.
SubjectTemplates ==
    [e \in Engines, t \in DOMAIN Templates |->
        IF e = "lambda" THEN ExtractSubjectLambda(Templates[t])
        ELSE IF ExtractSubjectDirect(Templates[t]) = NoMatch THEN <<>>
        ELSE ExtractSubjectDirect(Templates[t])[2]]

PlaceholderSets ==
    [e \in Engines, t \in DOMAIN Templates |->
        ExtractTemplatePlaceholders(Templates[t], SubjectTemplates[e, t])]

\* self.subject_template of the engine in use.
SubjectTemplate == SubjectTemplates[cfg.engine, cfg.tpl]

\* self.template_placeholders (event-driven engine).
TemplatePlaceholders == PlaceholderSets[cfg.engine, cfg.tpl]

\* self.event_placeholder_in_template (direct invocation).
EventPlaceholderInTemplate == \E i \in DOMAIN Html : Html[i] = Ph("event")

\* The template processor before a template is given to it.
IdleTp ==
    [pc |-> "off", html_template |-> <<>>, row_data |-> <<>>,
     subject_template |-> <<>>, template_placeholders |-> {},
     checked |-> FALSE, error |-> NoError, order |-> <<>>,
     subject |-> <<>>, html_body |-> <<>>]

Init ==
    /\ table \in InitTables
    /\ skipFile \in InitSkipFiles
    /\ cfg \in [engine : Engines, limit : Limits, tpl : DOMAIN Templates]
    /\ run = [p \in Procs |-> IdleRun]
    /\ prev = IdleRun
    /\ runs = 0
    /\ tp = IdleTp

\* ----------------------------------------------------------------- actions
\* Variant of Load: a run starts only while no other invocation is running.
LoadExclusive(p) ==
    /\ run[p].pc \in {"Idle"} \cup Terminal
    /\ runs < MaxRuns
    /\ \A q \in Procs \ {p} : run[q].pc \notin {"Validating", "Selecting", "Sending", "Persisting"}
    /\ runs' = runs + 1
    /\ prev' = IF run[p].pc \in Terminal THEN run[p] ELSE prev
    /\ \E outcome \in {"ok", "template read", "dataset read"} :
          LET new == [IdleRun EXCEPT !.table0 = table]
          IN  run' = [run EXCEPT ![p] =
                    IF outcome = "template read"
                    THEN Fatal(cfg.engine, new, "Constructing", {outcome})
                    ELSE IF cfg.engine = "direct" /\ ExtractSubjectDirect(Html) = NoMatch
                    THEN Fatal(cfg.engine, new, "Constructing", {"no subject"})
                    ELSE IF outcome = "dataset read"
                    THEN Fatal(cfg.engine, new, "Loading", {outcome})
                    ELSE LET m == LoadTable(cfg.engine, table)
                         IN  [new EXCEPT
                                 !.pc = "Validating",
                                 !.header = table.header,
                                 !.mem = m,
                                 !.mem0 = m,
                                 !.skip_emails = LoadSkipList(cfg.engine, skipFile),
                                 !.unprocessed = UnprocessedIdx(cfg.engine, m)]]
    /\ UNCHANGED <<tp, table, skipFile, cfg>>

\* Loading.  EmailSender() reads the template and extracts the subject, then
\* process_email_list reads the table and the opt-out list and filters the
\* unprocessed rows.  A new run begins; the run that ended before is kept
\* in prev.  outcome: which read fails, if any.
Load(p) ==
    /\ run[p].pc \in {"Idle"} \cup Terminal
    /\ runs < MaxRuns
    /\ runs' = runs + 1
    /\ prev' = IF run[p].pc \in Terminal THEN run[p] ELSE prev
    /\ \E outcome \in {"ok", "template read", "dataset read"} :
          LET new == [IdleRun EXCEPT !.table0 = table]
          IN  run' = [run EXCEPT ![p] =
                    IF outcome = "template read"
                    THEN Fatal(cfg.engine, new, "Constructing", {outcome})
                    ELSE IF cfg.engine = "direct" /\ ExtractSubjectDirect(Html) = NoMatch
                    THEN Fatal(cfg.engine, new, "Constructing", {"no subject"})
                    ELSE IF outcome = "dataset read"
                    THEN Fatal(cfg.engine, new, "Loading", {outcome})
                    ELSE LET m == LoadTable(cfg.engine, table)
                         IN  [new EXCEPT
                                 !.pc = "Validating",
                                 !.header = table.header,
                                 !.mem = m,
                                 !.mem0 = m,
                                 !.skip_emails = LoadSkipList(cfg.engine, skipFile),
                                 !.unprocessed = UnprocessedIdx(cfg.engine, m)]]
    /\ UNCHANGED <<tp, table, skipFile, cfg>>

\* Variant of ValidationErrors: the event-driven engine validates an empty
\* table too, against no columns.
ValidationErrorsAlways(st) ==
    IF cfg.engine = "lambda"
    THEN MissingColumns(TemplatePlaceholders,
                        IF st.mem # <<>> THEN DOMAIN st.mem[1] ELSE {})
    ELSE IF EventPlaceholderInTemplate /\ "event" \notin st.header
         THEN {"event"}
         ELSE {}

\* The placeholders the validation of the engine in use finds missing:
\* the event-driven engine validates against the first row's columns and
\* only when there is a row; the direct one checks the event column.
ValidationErrors(st) ==
    IF cfg.engine = "lambda"
    THEN IF st.mem # <<>>
         THEN MissingColumns(TemplatePlaceholders, DOMAIN st.mem[1])
         ELSE {}
    ELSE IF EventPlaceholderInTemplate /\ "event" \notin st.header
         THEN {"event"}
         ELSE {}

\* Validating; on success the run's timestamp is taken.
Validate(p) ==
    /\ run[p].pc = "Validating"
    /\ run' = [run EXCEPT ![p] =
                 IF ValidationErrors(@) # {}
                 THEN Fatal(cfg.engine, @, "Validating", ValidationErrors(@))
                 ELSE [@ EXCEPT !.pc = "Selecting", !.now = Stamps[runs]]]
    /\ UNCHANGED <<tp, table, skipFile, cfg, prev, runs>>

\* Where the run goes when the batch is exhausted.
AfterBatch(st) == IF st.pos > Len(st.to_process) THEN "Persisting" ELSE "Sending"

\* Variant of Select: a declined confirmation saves the table before returning.
SelectSavingOnDecline(p) ==
    /\ run[p].pc = "Selecting"
    /\ \E answer \in (IF cfg.engine = "direct" THEN {"yes", "no"} ELSE {"yes"}) :
          LET s1 == SkipLoop(cfg.engine, run[p], run[p].unprocessed, 1,
                             run[p].skip_emails, cfg.limit)
              s2 == [s1 EXCEPT !.to_process = ToProcess(cfg.engine, s1, cfg.limit)]
          IN  /\ run' = [run EXCEPT ![p] =
                           IF answer = "no"
                           THEN [s2 EXCEPT !.pc = "Aborted", !.result = Returned(s2.emails_sent)]
                           ELSE [s2 EXCEPT !.pc = AfterBatch(s2)]]
              /\ table' = IF answer = "no"
                          THEN [header |-> s2.header, rows |-> SaveRows(s2.mem)]
                          ELSE table
    /\ UNCHANGED <<tp, skipFile, cfg, prev, runs>>

\* Selecting: the skip pass, then the send batch.  The direct invocation
\* outside test mode asks for confirmation; "no" returns without saving.
Select(p) ==
    /\ run[p].pc = "Selecting"
    /\ \E answer \in (IF cfg.engine = "direct" THEN {"yes", "no"} ELSE {"yes"}) :
          run' = [run EXCEPT ![p] =
                    LET s1 == SkipLoop(cfg.engine, @, @.unprocessed, 1,
                                       @.skip_emails, cfg.limit)
                        s2 == [s1 EXCEPT !.to_process = ToProcess(cfg.engine, s1, cfg.limit)]
                    IN  IF answer = "no"
                        THEN [s2 EXCEPT !.pc = "Aborted", !.result = Returned(s2.emails_sent)]
                        ELSE [s2 EXCEPT !.pc = AfterBatch(s2)]]
    /\ UNCHANGED <<tp, table, skipFile, cfg, prev, runs>>

\* Preparing subject and body in the direct invocation happens outside the
\* try block: html_body.replace("{event}", v) raises when v is not a str
\* (NaN or a number, both truthy), and subject.format(event=v) raises on a
\* field other than event.
DirectPrepareRaises(st, i) ==
    /\ "event" \in st.header
    /\ \/ st.mem0[i]["event"] = NaN
       \/ st.mem0[i]["event"] \in Numbers
       \/ PlaceholdersOf(SubjectTemplate) \ {"event"} # {}

\* Variant of Record: a failed send ends the loop.
RecordAndStop(st, i, called, ok) ==
    LET st1 == [st EXCEPT !.mem = Mark(st.mem, i, IF ok THEN "sent" ELSE "failed", st.now),
                          !.marks = @ + 1,
                          !.emails_sent = IF ok THEN @ + 1 ELSE @,
                          !.calls = IF called THEN Append(@, [idx |-> i, ok |-> ok]) ELSE @,
                          !.pos = @ + 1]
    IN  [st1 EXCEPT !.pc = IF ok THEN AfterBatch(st1) ELSE "Persisting"]

\* Variant of Record: a failed send is counted as sent.
RecordCountingFailures(st, i, called, ok) ==
    LET st1 == [st EXCEPT !.mem = Mark(st.mem, i, IF ok THEN "sent" ELSE "failed", st.now),
                          !.marks = @ + 1,
                          !.emails_sent = @ + 1,
                          !.calls = IF called THEN Append(@, [idx |-> i, ok |-> ok]) ELSE @,
                          !.pos = @ + 1]
    IN  [st1 EXCEPT !.pc = AfterBatch(st1)]

\* Variant of Record: a failed send leaves the row as it was.
RecordSuccessesOnly(st, i, called, ok) ==
    LET st1 == [st EXCEPT !.mem = IF ok THEN Mark(st.mem, i, "sent", st.now) ELSE @,
                          !.marks = IF ok THEN @ + 1 ELSE @,
                          !.emails_sent = IF ok THEN @ + 1 ELSE @,
                          !.calls = IF called THEN Append(@, [idx |-> i, ok |-> ok]) ELSE @,
                          !.pos = @ + 1]
    IN  [st1 EXCEPT !.pc = AfterBatch(st1)]

\* One iteration of the send loop, after send_email returned: the transport
\* was called (or not) and answered ok (or not); the row is marked sent or
\* failed with the run's timestamp, emails_sent counts the successes, and the
\* loop goes on to the next row.
Record(st, i, called, ok) ==
    LET st1 == [st EXCEPT !.mem = Mark(st.mem, i, IF ok THEN "sent" ELSE "failed", st.now),
                          !.marks = @ + 1,
                          !.emails_sent = IF ok THEN @ + 1 ELSE @,
                          !.calls = IF called THEN Append(@, [idx |-> i, ok |-> ok]) ELSE @,
                          !.pos = @ + 1]
    IN  [st1 EXCEPT !.pc = AfterBatch(st1)]

\* Variant of SendOne: an error of the transport is not caught and ends the run.
SendOneUncaught(p) ==
    /\ run[p].pc = "Sending"
    /\ LET st == run[p]
           i == st.to_process[st.pos]
           addr == st.mem0[i]["email"]
       IN  IF cfg.engine = "lambda" /\ ~IsValidAddress(addr)
           THEN run' = [run EXCEPT ![p] = Record(st, i, FALSE, FALSE)]
           ELSE IF cfg.engine = "direct" /\ DirectPrepareRaises(st, i)
           THEN run' = [run EXCEPT ![p] = Fatal(cfg.engine, st, "Sending", {"prepare"})]
           ELSE \E ok \in BOOLEAN :
                   run' = [run EXCEPT ![p] =
                             IF ok THEN Record(st, i, TRUE, TRUE)
                             ELSE Fatal(cfg.engine, st, "Sending", {"transport"})]
    /\ UNCHANGED <<tp, table, skipFile, cfg, prev, runs>>

\* Sending: one iteration of the send loop.
SendOne(p) ==
    /\ run[p].pc = "Sending"
    /\ LET st == run[p]
           i == st.to_process[st.pos]
           addr == st.mem0[i]["email"]
       IN  IF cfg.engine = "lambda"
           THEN IF ~IsValidAddress(addr)
                THEN run' = [run EXCEPT ![p] = Record(st, i, FALSE, FALSE)]
                ELSE \E ok \in BOOLEAN : run' = [run EXCEPT ![p] = Record(st, i, TRUE, ok)]
           ELSE IF DirectPrepareRaises(st, i)
                THEN run' = [run EXCEPT ![p] = Fatal(cfg.engine, st, "Sending", {"prepare"})]
                ELSE \E ok \in BOOLEAN : run' = [run EXCEPT ![p] = Record(st, i, TRUE, ok)]
    /\ UNCHANGED <<tp, table, skipFile, cfg, prev, runs>>

\* Variant of WritesTable: no engine writes an empty table.
WritesTableNonEmpty(engine, mem) == mem # <<>>

\* _save_csv_to_s3 writes nothing for an empty table; to_csv always writes.
WritesTable(engine, mem) == engine = "direct" \/ mem # <<>>

\* Variant of Persist: a write that fails has replaced the table all the same.
PersistOverwritingOnFailure(p) ==
    /\ run[p].pc = "Persisting"
    /\ \E writeOk \in BOOLEAN :
          LET st == run[p]
              w == WritesTable(cfg.engine, st.mem)
          IN  /\ run' = [run EXCEPT ![p] =
                           IF w /\ ~writeOk
                           THEN Fatal(cfg.engine, st, "Persisting", {"table write"})
                           ELSE [st EXCEPT !.pc = "Done",
                                           !.writes = IF w THEN @ + 1 ELSE @,
                                           !.result =
                                               IF cfg.engine = "lambda"
                                               THEN Response200(st.emails_sent,
                                                                st.processed_count)
                                               ELSE Returned(st.emails_sent)]]
              /\ table' = IF w THEN [header |-> st.header, rows |-> SaveRows(st.mem)]
                          ELSE table
    /\ UNCHANGED <<tp, skipFile, cfg, prev, runs>>

\* Persisting: the whole table is written back, then the result is returned.
Persist(p) ==
    /\ run[p].pc = "Persisting"
    /\ \E writeOk \in BOOLEAN :
          LET st == run[p]
              w == WritesTable(cfg.engine, st.mem)
          IN  IF w /\ ~writeOk
              THEN /\ run' = [run EXCEPT ![p] =
                                Fatal(cfg.engine, st, "Persisting", {"table write"})]
                   /\ table' = table
              ELSE /\ run' = [run EXCEPT ![p] =
                                [st EXCEPT !.pc = "Done",
                                           !.writes = IF w THEN @ + 1 ELSE @,
                                           !.result =
                                               IF cfg.engine = "lambda"
                                               THEN Response200(st.emails_sent,
                                                                st.processed_count)
                                               ELSE Returned(st.emails_sent)]]
                   /\ table' = IF w THEN [header |-> st.header, rows |-> SaveRows(st.mem)]
                               ELSE table
    /\ UNCHANGED <<tp, skipFile, cfg, prev, runs>>

Step(p) == Load(p) \/ Validate(p) \/ Select(p) \/ SendOne(p) \/ Persist(p)

\* Runs one after the other: a single invocation at a time.
Next == Step("p1")

Spec == Init /\ [][Next]_vars

\* A single run: the first run of the invocation and nothing after it.
NextOne ==
    \/ runs = 0 /\ Load("p1")
    \/ Validate("p1")
    \/ Select("p1")
    \/ SendOne("p1")
    \/ Persist("p1")

SpecOne == Init /\ [][NextOne]_vars

\* The phases in which a started run is between two steps.
Running == {"Validating", "Selecting", "Sending", "Persisting"}

\* Variant of Interrupt: the stopped run flushes its table.
InterruptSaving(p) ==
    /\ run[p].pc \in Running
    /\ run' = [run EXCEPT ![p] = [@ EXCEPT !.pc = "Interrupted", !.interruptedIn = run[p].pc]]
    /\ table' = [header |-> run[p].header, rows |-> SaveRows(run[p].mem)]
    /\ UNCHANGED <<tp, skipFile, cfg, prev, runs>>

\* The run is stopped from outside (the process is killed, the invocation
\* times out) between two steps: what it holds in memory is gone, nothing is
\* written.  In Persisting the stop comes before the write.
Interrupt(p) ==
    /\ run[p].pc \in Running
    /\ run' = [run EXCEPT ![p] = [@ EXCEPT !.pc = "Interrupted", !.interruptedIn = run[p].pc]]
    /\ UNCHANGED <<tp, table, skipFile, cfg, prev, runs>>

\* A single run that is left to run: process_email_list is sequential code
\* whose loops are bounded by the table, so a step that can be taken is taken.
SpecOneFair == Init /\ [][NextOne]_vars /\ WF_vars(NextOne)

\* A single run over tables whose event column holds text, numbers written
\* with leading zeros, and empty cells.
CellTexts == {"Gala", "007", ""}
CellAddresses == {Addr_a, Addr_b}
CellHeader == SystemColumns \cup {"event"}
CellRows == {InitRow(CellHeader, e, s, v) : e \in CellAddresses, s \in {"", "sent"}, v \in CellTexts}
CellTables ==
    {[header |-> CellHeader, rows |-> rws] :
        rws \in UNION {[1..n -> CellRows] : n \in 0..MaxRows}}

InitCells ==
    /\ table \in CellTables
    /\ skipFile \in InitSkipFiles
    /\ cfg \in [engine : Engines, limit : Limits, tpl : DOMAIN Templates]
    /\ run = [p \in Procs |-> IdleRun]
    /\ prev = IdleRun
    /\ runs = 0
    /\ tp = IdleTp

SpecCells == InitCells /\ [][NextOne]_vars

\* One run of invocation p.
StepOne(p) ==
    \/ run[p].pc = "Idle" /\ Load(p)
    \/ Validate(p)
    \/ Select(p)
    \/ SendOne(p)
    \/ Persist(p)

\* Two invocations at the same time on the same stored table and opt-out
\* list, one run each, their steps interleaved in any order.
NextTwo == StepOne("p1") \/ StepOne("p2")

SpecTwo == Init /\ [][NextTwo]_vars

\* Runs one after the other, each of which may be stopped.
NextInt == Step("p1") \/ Interrupt("p1")

SpecInt == Init /\ [][NextInt]_vars


\* ------------------------------------------------- the template processor
\* The template processor on its own, as the unit tests drive it: an
\* EmailSender is built from a template, its placeholders are validated
\* against the columns of a record, and send_email prepares subject and body
\* from the record.
TitleParts ==
    {<<>>,
     <<Tag("title"), Txt("Fallback Title"), Tag("/title")>>,
     <<Tag("TITLE"), Sp, Txt("News from "), Ph("event"), Sp, Tag("/TITLE")>>,
     <<Tag("title class=t"), Txt("Titled"), Tag("/title")>>}

H1Parts ==
    {<<>>,
     <<Tag("h1"), Txt("Hello "), Ph("event"), Txt("!"), Tag("/h1")>>,
     <<Tag("h1 class=t"), Sp, Txt("Welcome"), Sp, Tag("/h1")>>,
     <<Tag("H1"), Txt("Dear "), Ph("name"), Tag("/H1")>>,
     <<Tag("h1"), Nl, Txt("Welcome"), Nl, Tag("/h1")>>,
     <<Tag("h1"), Tag("/h1")>>,
     <<Tag("h1"), Txt("Unclosed")>>}

BodyParts ==
    {<<>>,
     <<Tag("p"), Ph("event"), Txt(" and "), Ph("event")>>,
     <<Tag("p"), Ph("name"), Txt(" at "), Ph("event")>>,
     <<Tag("p"), Ph("email")>>,
     <<Tag("h1"), Txt("Second"), Tag("/h1")>>}

\* Head before body, or the heading before the title.
TextTemplates ==
    {t \o h \o b : t \in TitleParts, h \in H1Parts, b \in BodyParts}
    \cup {h \o t \o b : t \in TitleParts, h \in H1Parts, b \in BodyParts}

\* The records: the managed columns, and the data columns event and name,
\* each absent or holding text, the empty text, None, or text that is itself
\* a {name} token.
Absent == <<<<"absent", "">>>>
EventValues == {Absent, <<Txt("Gala")>>, <<>>, PyNone, <<Ph("name")>>, <<Ph("event")>>}
NameValues == {Absent, <<Txt("Ann")>>, <<Ph("event")>>}

TextRow(e, n) ==
    [c \in SystemColumns \cup (IF e = Absent THEN {} ELSE {"event"})
                         \cup (IF n = Absent THEN {} ELSE {"name"}) |->
        CASE c = "email" -> <<Txt("a@x.y")>>
          [] c = "event" -> e
          [] c = "name" -> n
          [] OTHER -> <<>>]

TextRows == {TextRow(e, n) : e \in EventValues, n \in NameValues}

InitText ==
    /\ table = [header |-> SystemColumns, rows |-> <<>>]
    /\ skipFile = <<>>
    /\ cfg = [engine |-> "lambda", limit |-> 0, tpl |-> 1]
    /\ run = [p \in Procs |-> IdleRun]
    /\ prev = IdleRun
    /\ runs = 0
    /\ tp \in {[IdleTp EXCEPT !.pc = "new", !.html_template = h, !.row_data = r] :
                  h \in TextTemplates, r \in TextRows}

\* EmailSender(): the subject and the placeholders are extracted.
TpConstruct ==
    /\ tp.pc = "new"
    /\ tp' = [tp EXCEPT
                !.pc = "constructed",
                !.subject_template = ExtractSubjectLambda(tp.html_template),
                !.template_placeholders =
                    ExtractTemplatePlaceholders(tp.html_template,
                                                ExtractSubjectLambda(tp.html_template))]
    /\ UNCHANGED <<table, skipFile, cfg, run, prev, runs>>

\* _validate_template_placeholders(set(row.keys())).
TpValidate ==
    /\ tp.pc = "constructed"
    /\ ~tp.checked
    /\ LET e == ValidateTemplatePlaceholders(tp.template_placeholders, DOMAIN tp.row_data)
       IN  tp' = [tp EXCEPT !.checked = TRUE, !.error = e,
                            !.pc = IF e.raised THEN "invalid" ELSE "constructed"]
    /\ UNCHANGED <<table, skipFile, cfg, run, prev, runs>>

\* send_email(address, row_data) up to the transport call: subject and body
\* are prepared; the placeholders are visited in one of the possible orders.
TpRender ==
    /\ tp.pc = "constructed"
    /\ \E order \in IterationOrders(tp.template_placeholders) :
          tp' = [tp EXCEPT
                    !.pc = "rendered",
                    !.order = order,
                    !.subject = PrepareSubject(tp.subject_template, tp.row_data, order),
                    !.html_body = PrepareBody(tp.html_template, tp.row_data, order)]
    /\ UNCHANGED <<table, skipFile, cfg, run, prev, runs>>

NextText == TpConstruct \/ TpValidate \/ TpRender

SpecText == InitText /\ [][NextText]_vars


\* ------------------------------------------------------------ properties
\* The run of the single invocation of Spec.
Cur == run["p1"]

Loaded(st) == st.pc \notin {"Idle"} /\ st.failedIn \notin {"Constructing", "Loading"}

StatusOf(st, i) == st.mem[i]["sent_status"]
Status0Of(st, i) == st.mem0[i]["sent_status"]

\* Rows whose status the run changed to s.
ChangedTo(st, s) == {i \in DOMAIN st.mem : StatusOf(st, i) = s /\ Status0Of(st, i) # s}

\* Rows the run changed in any way.
Touched(st) == {i \in DOMAIN st.mem : st.mem[i] # st.mem0[i]}

CalledIdx(st) == {st.calls[k].idx : k \in DOMAIN st.calls}
AcceptedCalls(st) == {k \in DOMAIN st.calls : st.calls[k].ok}
BatchIdx(st) == {st.to_process[k] : k \in DOMAIN st.to_process}
UnprocessedSet(st) == {st.unprocessed[k] : k \in DOMAIN st.unprocessed}

\* The stored opt-out list holds the address, letter case ignored.
OptedOut(e) == \E k \in DOMAIN skipFile : Lower(skipFile[k]) = Lower(e)

\* Rows that were unprocessed at load and whose address is opted out.
OptedOutRows(st) ==
    {i \in DOMAIN st.mem0 : Status0Of(st, i) \in {"", NaN} /\ OptedOut(st.mem0[i]["email"])}

\* C1: two complete runs in succession with a limit >= 0 make in total no
\* more status transitions than there were unprocessed records before the
\* first, and the second never selects, sends to or changes a record the
\* first marked sent, skipped or failed.
C1_Idempotence ==
    (cfg.limit >= 0 /\ prev.pc = "Done" /\ Loaded(Cur)) =>
        /\ \A i \in Touched(prev) :
              /\ i \notin UnprocessedSet(Cur)
              /\ i \notin BatchIdx(Cur)
              /\ i \notin CalledIdx(Cur)
              /\ Cur.mem[i] = Cur.mem0[i]
              /\ SaveRows(Cur.mem)[i] = SaveRows(prev.mem)[i]
        /\ Cur.pc = "Done" => prev.marks + Cur.marks <= Len(prev.unprocessed)

\* Two complete runs that both changed records, the first leaving a failed one.
C1_Witness ==
    /\ cfg.limit >= 0 /\ prev.pc = "Done" /\ Cur.pc = "Done"
    /\ prev.marks >= 1 /\ Cur.marks >= 1
    /\ \E i \in Touched(prev) : StatusOf(prev, i) = "failed"

\* C2: with a limit >= 0 a run makes at most `limit` status transitions and
\* at most `limit` transport calls.
C2_CapRespect ==
    cfg.limit >= 0 => /\ Cur.marks <= cfg.limit
                      /\ Cardinality(Touched(Cur)) <= cfg.limit
                      /\ Len(Cur.calls) <= cfg.limit

\* A completed run that used its whole limit while more rows were
\* unprocessed than the limit allows.
C2_Witness ==
    /\ Cur.pc = "Done" /\ cfg.limit >= 1
    /\ Cur.marks = cfg.limit
    /\ Len(Cur.unprocessed) > cfg.limit

\* C3: in the event-driven engine an unprocessed record whose lower-cased
\* address is opted out gets no transport call and is never sent; with a
\* limit of at least the number of such records each ends the run skipped.
C3_OptOutPrecedence ==
    (cfg.engine = "lambda" /\ Loaded(Cur)) =>
        \A i \in OptedOutRows(Cur) :
            /\ i \notin CalledIdx(Cur)
            /\ i \notin BatchIdx(Cur)
            /\ StatusOf(Cur, i) # "sent"
            /\ (Cur.pc \in {"Sending", "Persisting", "Done"}
                /\ cfg.limit >= Cardinality(OptedOutRows(Cur)))
               => (StatusOf(Cur, i) = "skipped" /\ Cur.mem[i]["send_date"] = Cur.now)

\* A completed event-driven run that skipped an opted-out record written in
\* another letter case than the list's entry, and sent to another record.
C3_Witness ==
    /\ cfg.engine = "lambda" /\ Cur.pc = "Done"
    /\ \E i \in OptedOutRows(Cur) :
          /\ \A k \in DOMAIN skipFile : skipFile[k] # Cur.mem0[i]["email"]
          /\ StatusOf(Cur, i) = "skipped"
    /\ ChangedTo(Cur, "sent") # {}

\* C4: in both engines a record whose address differs from an opt-out entry
\* only in letter case is treated as opted out: never sent to, and marked
\* skipped when the limit suffices.
C4_CaseInsensitiveOptOut ==
    Loaded(Cur) =>
        \A i \in OptedOutRows(Cur) :
            /\ i \notin CalledIdx(Cur)
            /\ StatusOf(Cur, i) # "sent"
            /\ (Cur.pc = "Done" /\ cfg.limit >= Cardinality(OptedOutRows(Cur)))
               => StatusOf(Cur, i) = "skipped"

\* The placeholders of the template that no data column of the stored table
\* provides.
AbsentPlaceholders == TemplatePlaceholders \ (table.header \ SystemColumns)

C6_FailureDoesNotAbort ==
    cfg.engine = "lambda" =>
        /\ Cur.failedIn # "Sending"
        /\ \A k \in DOMAIN Cur.calls :
              ~Cur.calls[k].ok =>
                  /\ StatusOf(Cur, Cur.calls[k].idx) = "failed"
                  /\ Cur.mem[Cur.calls[k].idx]["send_date"] = Cur.now
        /\ (Cur.pc = "Persisting" \/ Cur.failedIn = "Persisting" \/ Cur.pc = "Done") =>
              \A i \in BatchIdx(Cur) :
                  /\ StatusOf(Cur, i) \in {"sent", "failed"}
                  /\ Cur.mem[i]["send_date"] = Cur.now
                  /\ IsValidAddress(Cur.mem0[i]["email"]) => i \in CalledIdx(Cur)

\* The first transport call of an event-driven run failed, a later one was
\* made and accepted, and the run is in Persisting.
C6_Witness ==
    /\ cfg.engine = "lambda" /\ Cur.pc = "Persisting"
    /\ Len(Cur.calls) = 2 /\ ~Cur.calls[1].ok /\ Cur.calls[2].ok

\* C7: the event-driven entry point never lets an exception escape: a run
\* that completes answers 200 (also when recipients failed), a fatal error
\* answers 500 with an error message.
C7_StructuredResult ==
    cfg.engine = "lambda" =>
        /\ Cur.result.kind # "exception"
        /\ Cur.pc \notin Terminal => Cur.result.kind = "none"
        /\ Cur.pc = "Done" => (Cur.result.kind = "response" /\ Cur.result.statusCode = 200)
        /\ Cur.pc = "Failed" =>
              /\ Cur.result.kind = "response" /\ Cur.result.statusCode = 500
              /\ Cur.result.error # {}
              /\ Cur.failedIn \in {"Constructing", "Loading", "Validating", "Persisting"}
        /\ Cur.pc # "Aborted"

\* An event-driven run whose write failed after a transport call was
\* accepted and another one failed; it answered 500.
C7_Witness ==
    /\ cfg.engine = "lambda"
    /\ Cur.pc = "Failed" /\ Cur.failedIn = "Persisting" /\ Cur.result.statusCode = 500
    /\ \E k \in DOMAIN Cur.calls : ~Cur.calls[k].ok
    /\ \E k \in DOMAIN Cur.calls : Cur.calls[k].ok

\* The number of emails a finished run reports as sent.
ReportedSent(st) ==
    IF cfg.engine = "lambda" THEN st.result.emails_sent ELSE st.result.value

\* C8: the number reported as sent equals the number of records whose status
\* changed to sent in the run and the number of messages the transport accepted.
C8_SentCount ==
    (Cur.pc \in {"Done", "Aborted"}) =>
        /\ ReportedSent(Cur) = Cardinality(ChangedTo(Cur, "sent"))
        /\ ReportedSent(Cur) = Cardinality(AcceptedCalls(Cur))

\* A completed run that reports a sent email and also had a failed record.
C8_Witness ==
    /\ Cur.pc = "Done" /\ ReportedSent(Cur) >= 1
    /\ ChangedTo(Cur, "failed") # {}

\* C9: in a 200 result of the event-driven engine emails_skipped is the
\* number of records marked skipped in the run.
C9_SkippedCount ==
    (cfg.engine = "lambda" /\ Cur.pc = "Done" /\ Cur.result.statusCode = 200) =>
        Cur.result.emails_skipped = Cardinality(ChangedTo(Cur, "skipped"))

\* C10: in a 200 result of the event-driven engine total_processed is the
\* number of status transitions of the run: sent + skipped + failed.
C10_TotalProcessed ==
    (cfg.engine = "lambda" /\ Cur.pc = "Done" /\ Cur.result.statusCode = 200) =>
        /\ Cur.result.total_processed = Cur.marks
        /\ Cur.result.total_processed =
              Cardinality(ChangedTo(Cur, "sent")) + Cardinality(ChangedTo(Cur, "skipped"))
              + Cardinality(ChangedTo(Cur, "failed"))

\* The text in which every {x}, x a placeholder of the template, stands
\* replaced by the record's value of x, or by nothing when the record has no
\* field x: all placeholders replaced at once.
RECURSIVE InPlace(_, _, _)
InPlace(text, row_data, P) ==
    IF text = <<>> THEN <<>>
    ELSE (IF Head(text)[1] = "ph" /\ Head(text)[2] \in P
          THEN RowGet(row_data, Head(text)[2], <<>>)
          ELSE <<Head(text)>>)
         \o InPlace(Tail(text), row_data, P)

Holds(text, tok) == \E i \in DOMAIN text : text[i] = tok

\* The subject send_email starts from.
TpSubjectUsed == IF tp.subject_template # <<>> THEN tp.subject_template ELSE DefaultSubject

\* The fields of the record that the template references.
TpReferenced == tp.template_placeholders \cap DOMAIN tp.row_data

\* No referenced field of the record is None.
TpNoNull == \A x \in TpReferenced : tp.row_data[x] # PyNone

\* No referenced field's value contains a {name} token of the template.
TpPlainValues ==
    \A x \in TpReferenced :
        PlaceholdersOf(tp.row_data[x]) \cap tp.template_placeholders = {}

\* C11: rendering puts the record's value V of x in place of every {x} of
\* subject and body and leaves no literal {x}, for every placeholder x; a
\* placeholder whose field the record lacks is replaced by the empty string;
\* rendering never fails.
C11_RoundTrip ==
    /\ tp.pc = "constructed" => ENABLED TpRender
    /\ (tp.pc = "rendered" /\ TpNoNull) =>
          /\ tp.subject = InPlace(TpSubjectUsed, tp.row_data, tp.template_placeholders)
          /\ tp.html_body = InPlace(tp.html_template, tp.row_data, tp.template_placeholders)
          /\ \A x \in tp.template_placeholders :
                ~Holds(tp.subject, Ph(x)) /\ ~Holds(tp.html_body, Ph(x))

\* C11 as amended: the same, for records in which no referenced field's
\* value itself contains a {name} token of the template.
C11_RoundTripPlainValues ==
    /\ tp.pc = "constructed" => ENABLED TpRender
    /\ (tp.pc = "rendered" /\ TpNoNull /\ TpPlainValues) =>
          /\ tp.subject = InPlace(TpSubjectUsed, tp.row_data, tp.template_placeholders)
          /\ tp.html_body = InPlace(tp.html_template, tp.row_data, tp.template_placeholders)
          /\ \A x \in tp.template_placeholders :
                ~Holds(tp.subject, Ph(x)) /\ ~Holds(tp.html_body, Ph(x))

\* The subject "Hello {event}!" rendered for a record with event = Gala and
\* no field name, the body referencing both: the subject is "Hello Gala!".
C11_Witness ==
    /\ tp.pc = "rendered"
    /\ tp.subject_template = <<Txt("Hello "), Ph("event"), Txt("!")>>
    /\ tp.template_placeholders = {"event", "name"}
    /\ DOMAIN tp.row_data = SystemColumns \cup {"event"}
    /\ tp.row_data["event"] = <<Txt("Gala")>>
    /\ tp.subject = <<Txt("Hello "), Txt("Gala"), Txt("!")>>
    /\ tp.html_body = InPlace(tp.html_template, tp.row_data, {"event", "name"})

\* The record with the empty string for every None.
NullAsEmpty(row_data) ==
    [c \in DOMAIN row_data |-> IF row_data[c] = PyNone THEN <<>> ELSE row_data[c]]

\* C12: when the record holds None for a referenced field (a short row),
\* rendering replaces every {name} of that field by the empty string, in the
\* subject and in the body.
C12_NullAsEmpty ==
    (tp.pc = "rendered" /\ TpPlainValues
     /\ \E x \in TpReferenced : tp.row_data[x] = PyNone) =>
        /\ tp.subject =
              InPlace(TpSubjectUsed, NullAsEmpty(tp.row_data), tp.template_placeholders)
        /\ tp.html_body =
              InPlace(tp.html_template, NullAsEmpty(tp.row_data), tp.template_placeholders)

\* C13: a run stopped before its write leaves the stored table exactly as it
\* was before the run; the table is changed by the one write of Persisting
\* only, never in Selecting or Sending.
C13_InterruptLeavesTable ==
    Cur.pc # "Idle" =>
        /\ Cur.writes <= 1
        /\ Cur.pc # "Done" => (table = Cur.table0 /\ Cur.writes = 0)
        /\ table # Cur.table0 => (Cur.pc = "Done" /\ Cur.writes = 1)

\* A run stopped in Sending after it had marked a record sent in memory,
\* with another record of the batch still to come.
C13_Witness ==
    /\ Cur.pc = "Interrupted" /\ Cur.interruptedIn = "Sending"
    /\ ChangedTo(Cur, "sent") # {} /\ Cur.pos <= Len(Cur.to_process)
    /\ table = Cur.table0

\* Records for which the transport accepted a message in run st.
AcceptedIdx(st) == {st.calls[k].idx : k \in AcceptedCalls(st)}

\* The run was stopped in the send loop or right after it, before the write.
StoppedSending(st) ==
    st.pc = "Interrupted" /\ st.interruptedIn \in {"Sending", "Persisting"}

\* C14: when a run is stopped in Sending after the transport accepted a
\* message, the stored table still shows that recipient unprocessed, and the
\* next complete run whose limit covers the unprocessed records calls the
\* transport for the same recipient again.
C14_AtLeastOnce ==
    /\ StoppedSending(Cur) =>
          \A i \in AcceptedIdx(Cur) : table.rows[i]["sent_status"] = ""
    /\ (StoppedSending(prev) /\ Cur.pc = "Done" /\ cfg.limit >= Len(Cur.unprocessed)) =>
          \A i \in AcceptedIdx(prev) :
              /\ i \in UnprocessedSet(Cur)
              /\ i \in CalledIdx(Cur)

\* A run stopped in Sending after an accepted message, followed by a complete
\* run in which the transport accepted a message for the same record again.
C14_Witness ==
    /\ prev.pc = "Interrupted" /\ prev.interruptedIn = "Sending"
    /\ Cur.pc = "Done"
    /\ \E i \in AcceptedIdx(prev) : i \in AcceptedIdx(Cur)

\* The run has chosen its send batch.
Selected(st) == st.pc \in {"Sending", "Persisting", "Done", "Aborted"}

\* C15: nothing keeps two simultaneous invocations from dispatching to the
\* same recipient: while one runs the other can start (no lock), the write
\* goes ahead whatever the stored table has become (no version check), and
\* two runs that loaded the same table choose the same send batch.
C15_NoMutualExclusion ==
    \A p \in Procs : \A q \in Procs \ {p} :
        /\ (run[p].pc \in Running /\ run[q].pc = "Idle") => ENABLED Load(q)
        /\ run[p].pc = "Persisting" => ENABLED Persist(p)
        /\ (Selected(run[p]) /\ Selected(run[q]) /\ run[p].table0 = run[q].table0) =>
              run[p].to_process = run[q].to_process

\* Both invocations completed and the transport accepted a message of each
\* for the same record.
C15_Witness ==
    /\ run["p1"].pc = "Done" /\ run["p2"].pc = "Done"
    /\ \E i \in AcceptedIdx(run["p1"]) : i \in AcceptedIdx(run["p2"])

\* The first element <name ...>...</name> of a template, in any letter case
\* and with any attributes: the first opening tag that has a closing tag
\* after it, and the tokens between the two; line breaks are content.
FirstElement(html, name) ==
    LET closes(o) == {c \in (o + 1)..Len(html) : IsClose(html[c], name, TRUE)}
        opens == {o \in DOMAIN html : IsOpen(html[o], name, TRUE) /\ closes(o) # {}}
    IN  IF opens = {} THEN NoMatch
        ELSE <<"match", SubSeq(html, Min(opens) + 1, Min(closes(Min(opens))) - 1)>>

\* C16: the extracted subject is the trimmed inner text of the first <h1>
\* element when the template has one, otherwise that of the first <title>
\* element, otherwise the default subject.  (The extraction has no failing
\* branch: TpConstruct is defined for every template.)
C16_ExtractSubject ==
    tp.pc \notin {"off", "new"} =>
        tp.subject_template =
            IF FirstElement(tp.html_template, "h1") # NoMatch
            THEN Strip(FirstElement(tp.html_template, "h1")[2])
            ELSE IF FirstElement(tp.html_template, "title") # NoMatch
            THEN Strip(FirstElement(tp.html_template, "title")[2])
            ELSE DefaultSubject

\* The first n elements, in table order, of a set of row indices.
FirstOf(S, n) == {i \in S : Cardinality({j \in S : j < i}) < n}

MinOf(a, b) == IF a <= b THEN a ELSE b

\* The unprocessed records that are not opted out.
OtherRows(st) == UnprocessedSet(st) \ OptedOutRows(st)

\* C17: with a limit L >= 0, O unprocessed opted-out records and N other
\* unprocessed records, the run marks skipped exactly the first min(L, O)
\* opted-out records in table order and its send batch is exactly the first
\* min(L - min(L, O), N) other records in table order; when L >= O + N every
\* unprocessed record is processed.
C17_TwoPassSelection ==
    (cfg.limit >= 0 /\ Selected(Cur)) =>
        LET O == Cardinality(OptedOutRows(Cur))
            N == Cardinality(OtherRows(Cur))
            skips == MinOf(cfg.limit, O)
        IN  /\ ChangedTo(Cur, "skipped") = FirstOf(OptedOutRows(Cur), skips)
            /\ Cur.to_process = SortedSeq(FirstOf(OtherRows(Cur), cfg.limit - skips))
            /\ Len(Cur.to_process) = MinOf(cfg.limit - skips, N)
            /\ (Cur.pc = "Done" /\ cfg.limit >= O + N) =>
                  \A i \in UnprocessedSet(Cur) :
                      StatusOf(Cur, i) \in {"sent", "skipped", "failed"}

\* The run passed validation and ended otherwise than by a failed write.
EndedAfterValidation(st) ==
    \/ st.pc \in {"Done", "Aborted"}
    \/ st.pc = "Failed" /\ st.failedIn = "Sending"

\* The stored table is the whole table of the run as it was in memory.
WholeTableWritten(st) ==
    /\ table = [header |-> st.header, rows |-> SaveRows(st.mem)]
    /\ Len(table.rows) = Len(st.table0.rows)

\* C18: every run that passes validation performs exactly one write of the
\* entire table, whether zero or many records changed.
C18_ExactlyOneWrite ==
    EndedAfterValidation(Cur) => (Cur.writes = 1 /\ WholeTableWritten(Cur))

\* C18 as amended: a run that completes has performed exactly one write of
\* the entire table, whatever number of records changed, except that the
\* event-driven engine performs none when the table holds no record; a run
\* the operator declined ends without a write.
C18_OneWriteWhenCompleted ==
    /\ Cur.pc = "Done" =>
          IF cfg.engine = "lambda" /\ Cur.mem0 = <<>>
          THEN Cur.writes = 0 /\ table = Cur.table0
          ELSE Cur.writes = 1 /\ WholeTableWritten(Cur)
    /\ Cur.pc = "Aborted" => (Cur.writes = 0 /\ table = Cur.table0)

\* A completed run on a table with an unprocessed record that changed no
\* record and wrote the table once.
C18_Witness ==
    /\ Cur.pc = "Done" /\ Cur.unprocessed # <<>>
    /\ Touched(Cur) = {} /\ Cur.writes = 1
    /\ WholeTableWritten(Cur)

\* The event-driven run is past Validating, or failed in it.
Validated(st) == Loaded(st) /\ st.pc # "Validating"

FailedValidating(st) == st.pc = "Failed" /\ st.failedIn = "Validating"

Rank(n) == CHOOSE i \in DOMAIN NameOrder : NameOrder[i] = n

\* seq lists the names of S once each, in increasing order.
IsSortedListOf(seq, S) ==
    /\ Len(seq) = Cardinality(S)
    /\ {seq[i] : i \in DOMAIN seq} = S
    /\ \A i \in DOMAIN seq : \A j \in DOMAIN seq : i < j => Rank(seq[i]) < Rank(seq[j])

\* C20: validation fails exactly when placeholders minus (columns minus
\* {email, sent_status, send_date}) is not empty, and reports the sorted
\* missing names and the sorted available names; a managed column never
\* satisfies a placeholder, so a template referencing one is rejected.
C20_Validate ==
    tp.checked =>
        LET available == (DOMAIN tp.row_data) \ {"email", "sent_status", "send_date"}
            missing == tp.template_placeholders \ available
        IN  /\ tp.error.raised <=> missing # {}
            /\ tp.error.raised <=> tp.pc = "invalid"
            /\ tp.error.raised =>
                  /\ IsSortedListOf(tp.error.missing, missing)
                  /\ IsSortedListOf(tp.error.available, available)
            /\ tp.template_placeholders \cap {"email", "sent_status", "send_date"} # {}
                  => tp.error.raised

\* A template whose only placeholder is {email}, validated against a record
\* that has the columns email, event and name: rejected, email reported
\* missing, event and name reported available.
C20_Witness ==
    /\ tp.checked /\ tp.pc = "invalid"
    /\ tp.template_placeholders = {"email"}
    /\ DOMAIN tp.row_data = SystemColumns \cup {"event", "name"}
    /\ tp.error.missing = <<"email">>
    /\ tp.error.available = <<"event", "name">>

\* The address has no '@', or no '.' after its '@'.
StructurallyInvalid(e) ==
    \/ \A i \in DOMAIN e : e[i] # "@"
    \/ \A i \in DOMAIN e : \A j \in DOMAIN e : (e[i] = "@" /\ j > i) => e[j] # "."

\* The batch positions the send loop has dealt with.
DonePositions(st) == {k \in DOMAIN st.to_process : k < st.pos}

\* The send loop has ended.
LoopEnded(st) == st.pc \in {"Persisting", "Done"} \/ st.failedIn = "Persisting"

SurfacedAsFatal(st) ==
    /\ st.pc = "Failed"
    /\ st.result.error # {}
    /\ IF cfg.engine = "lambda"
       THEN st.result.kind = "response" /\ st.result.statusCode = 500
       ELSE st.result.kind = "exception"

\* The result of the run reports success.
ReportedSuccess(st) ==
    \/ st.result.kind = "response" /\ st.result.statusCode = 200
    \/ st.result.kind = "return"

\* C22: when the write of Persisting fails the run ends with a fatal error
\* (status 500 with the error, or an exception out of the direct invocation)
\* and not with a success, and the stored table is the one the run loaded,
\* whatever the transport was called for; a run that reports success after
\* the send loop has written its table.
C22_FailedWriteIsFatal ==
    /\ Cur.failedIn = "Persisting" =>
          /\ SurfacedAsFatal(Cur)
          /\ ~ReportedSuccess(Cur)
          /\ Cur.writes = 0
          /\ table = Cur.table0
    /\ (Cur.pc = "Done" /\ WritesTable(cfg.engine, Cur.mem)) =>
          /\ Cur.writes = 1
          /\ table = [header |-> Cur.header, rows |-> SaveRows(Cur.mem)]

\* The write failed after the transport had accepted a message: the stored
\* table still shows the recipient as unprocessed.
C22_Witness ==
    /\ Cur.failedIn = "Persisting"
    /\ \E i \in AcceptedIdx(Cur) :
          /\ StatusOf(Cur, i) = "sent"
          /\ table.rows[i]["sent_status"] = ""

\* The steps from one phase to the next that the claimed order allows.
PhaseSteps ==
    {<<"Idle", "Validating">>, <<"Idle", "Failed">>,
     <<"Validating", "Selecting">>, <<"Validating", "Failed">>,
     <<"Selecting", "Sending">>, <<"Selecting", "Persisting">>,
     <<"Sending", "Sending">>, <<"Sending", "Persisting">>,
     <<"Persisting", "Done">>, <<"Persisting", "Failed">>}

\* C23: a run of the event-driven engine goes through Loading, Validating,
\* Selecting, Sending, Persisting, Done in that order and fails only in
\* Loading, Validating or Persisting (a template that cannot be read fails
\* the construction, before the run); once validation has passed the run
\* reaches Persisting, and every started run ends in Done or Failed.
C23_PhaseOrder ==
    /\ [][cfg.engine = "lambda" =>
            /\ <<run["p1"].pc, run'["p1"].pc>> \in PhaseSteps
            /\ run'["p1"].pc = "Failed" =>
                  /\ run'["p1"].failedIn \in {"Constructing", "Loading", "Validating", "Persisting"}
                  /\ (run'["p1"].failedIn \in {"Constructing", "Loading"}) = (run["p1"].pc = "Idle")
                  /\ (run'["p1"].failedIn = "Validating") = (run["p1"].pc = "Validating")
                  /\ (run'["p1"].failedIn = "Persisting") = (run["p1"].pc = "Persisting")]_vars
    /\ (cfg.engine = "lambda" /\ Cur.pc = "Selecting") ~> (Cur.pc = "Persisting")
    /\ (cfg.engine = "lambda" /\ Cur.pc \in Running) ~> (Cur.pc \in {"Done", "Failed"})

\* A completed run of the event-driven engine whose send loop met a refused
\* message and an invalid address and still wrote the table.
C23_Witness ==
    /\ cfg.engine = "lambda" /\ Cur.pc = "Done" /\ Cur.writes = 1
    /\ Len(Cur.to_process) = 2
    /\ \E k \in DOMAIN Cur.calls : ~Cur.calls[k].ok
    /\ BatchIdx(Cur) \ CalledIdx(Cur) # {}

\* The recipients of the transport calls of a run, in the order of the calls.
CallOrder(st) == [k \in DOMAIN st.calls |-> st.calls[k].idx]

\* q is in table order: row numbers increase along it.
InTableOrder(q) == \A j \in DOMAIN q : \A k \in DOMAIN q : j < k => q[j] < q[k]

\* q is p with some elements left out, the order kept.
RECURSIVE IsSubSeq(_, _)
IsSubSeq(q, p) ==
    IF q = <<>> THEN TRUE
    ELSE IF p = <<>> THEN FALSE
    ELSE IF Head(q) = Head(p) THEN IsSubSeq(Tail(q), Tail(p))
    ELSE IsSubSeq(q, Tail(p))

\* C24: the send batch is in table order and the transport calls of a run
\* follow it; while the send loop is at one recipient, every recipient
\* before it in the batch has its status and the run's timestamp, and no
\* recipient from it on has been called or marked.
C24_Sequential ==
    Selected(Cur) \/ Cur.failedIn \in {"Sending", "Persisting"} =>
        /\ InTableOrder(Cur.to_process)
        /\ InTableOrder(CallOrder(Cur))
        /\ IsSubSeq(CallOrder(Cur), Cur.to_process)
        /\ \A k \in DOMAIN Cur.to_process :
              IF k < Cur.pos
              THEN /\ StatusOf(Cur, Cur.to_process[k]) \in {"sent", "failed"}
                   /\ Cur.mem[Cur.to_process[k]]["send_date"] = Cur.now
              ELSE /\ Cur.to_process[k] \notin CalledIdx(Cur)
                   /\ Cur.mem[Cur.to_process[k]] = Cur.mem0[Cur.to_process[k]]

\* The send loop stands before the second recipient of its batch: the first
\* one was called and has its status, the second one is untouched.
C24_Witness ==
    /\ Cur.pc = "Sending" /\ Cur.pos = 2 /\ Len(Cur.to_process) = 2
    /\ CallOrder(Cur) = <<Cur.to_process[1]>>
    /\ StatusOf(Cur, Cur.to_process[1]) \in {"sent", "failed"}
    /\ Cur.mem[Cur.to_process[2]] = Cur.mem0[Cur.to_process[2]]

\* Rows whose sent_status was not empty when the run loaded the table.
ProcessedAtLoad(st) == {i \in DOMAIN st.mem0 : st.table0.rows[i]["sent_status"] # ""}

\* In memory the run has not changed row i, nor put it in the send batch,
\* nor called the transport for it.
UntouchedInRun(st, i) ==
    /\ st.mem[i] = st.mem0[i]
    /\ i \notin BatchIdx(st)
    /\ i \notin CalledIdx(st)

\* C25: a run leaves every record whose sent_status was not empty at load
\* unchanged in every field, in memory and in the stored table, and makes no
\* transport call for it, whether or not its address is in the opt-out set.
C25_ProcessedUntouched ==
    Loaded(Cur) =>
        \A i \in ProcessedAtLoad(Cur) :
            /\ UntouchedInRun(Cur, i)
            /\ i \in DOMAIN table.rows /\ table.rows[i] = Cur.table0.rows[i]

\* The same for what the run does in memory only.
C25_UntouchedInMemory ==
    Loaded(Cur) => \A i \in ProcessedAtLoad(Cur) : UntouchedInRun(Cur, i)

\* The same for the event-driven engine.
C25_UntouchedLambda == cfg.engine = "lambda" => C25_ProcessedUntouched

\* Rows the run has marked skipped.
SkippedInRun(st) == ChangedTo(st, "skipped")

\* C26: within one run no record is both marked skipped and in the send
\* batch, no record gets more than one transport call, and no record is
\* marked twice (the run has marked as many times as there are records it
\* changed, each of which was unprocessed at load).
C26_OneTransition ==
    Loaded(Cur) =>
        /\ SkippedInRun(Cur) \cap BatchIdx(Cur) = {}
        /\ \A j \in DOMAIN Cur.calls : \A k \in DOMAIN Cur.calls :
              Cur.calls[j].idx = Cur.calls[k].idx => j = k
        /\ \A j \in DOMAIN Cur.to_process : \A k \in DOMAIN Cur.to_process :
              Cur.to_process[j] = Cur.to_process[k] => j = k
        /\ Cur.marks = Cardinality(Touched(Cur))
        /\ \A i \in Touched(Cur) :
              /\ IsUnprocessed(cfg.engine, Status0Of(Cur, i))
              /\ i \in SkippedInRun(Cur) =>
                    /\ i \notin CalledIdx(Cur)
                    /\ StatusOf(Cur, i) = "skipped"

\* A completed run that marked one record skipped and sent to another.
C26_Witness ==
    /\ Cur.pc = "Done" /\ Cur.marks = 2
    /\ SkippedInRun(Cur) # {}
    /\ AcceptedIdx(Cur) # {}

\* The row's send_date is not what it was at load.
DateChanged(st, i) == st.mem[i]["send_date"] # st.mem0[i]["send_date"]

\* The row's status was empty at load and is sent, skipped or failed now.
LeftEmpty(st, i) ==
    /\ IsUnprocessed(cfg.engine, Status0Of(st, i))
    /\ StatusOf(st, i) \in {"sent", "skipped", "failed"}

\* Every row of the stored table t has a status of the four and a send_date
\* exactly when its status is not empty.
DatesMatchStatuses(t) ==
    \A i \in DOMAIN t.rows :
        /\ t.rows[i]["sent_status"] \in {"", "sent", "skipped", "failed"}
        /\ (t.rows[i]["sent_status"] = "") = (t.rows[i]["send_date"] = "")

\* C27: in a run a record's send_date changes exactly when its sent_status
\* goes from empty to sent, skipped or failed, and it is then the run's
\* timestamp; a table in which a record has a send_date exactly when it has
\* a status, and only the four statuses, is stored as such a table.
C27_DateWithStatus ==
    Loaded(Cur) =>
        /\ \A i \in DOMAIN Cur.mem :
              /\ DateChanged(Cur, i) = LeftEmpty(Cur, i)
              /\ (StatusOf(Cur, i) # Status0Of(Cur, i)) = LeftEmpty(Cur, i)
              /\ LeftEmpty(Cur, i) => Cur.mem[i]["send_date"] = Cur.now
        /\ DatesMatchStatuses(Cur.table0) => DatesMatchStatuses(table)
        /\ (Cur.pc = "Done" /\ DatesMatchStatuses(Cur.table0)) =>
              \A i \in DOMAIN table.rows :
                 (table.rows[i]["send_date"] # Cur.table0.rows[i]["send_date"])
                     = (Cur.table0.rows[i]["sent_status"] = "" /\ table.rows[i]["sent_status"] # "")

\* A completed run stored a record it skipped and a record it sent to with
\* its timestamp, next to a record sent earlier that keeps its older date.
C27_Witness ==
    /\ Cur.pc = "Done"
    /\ \E i \in DOMAIN table.rows :
          /\ Cur.table0.rows[i]["sent_status"] = ""
          /\ table.rows[i]["sent_status"] \in {"skipped", "failed"}
          /\ table.rows[i]["send_date"] = Cur.now
    /\ \E i \in DOMAIN table.rows :
          /\ Cur.table0.rows[i]["sent_status"] = "sent"
          /\ table.rows[i]["send_date"] = OldStamp

\* C28: with a negative limit a run changes no record and makes no
\* transport call, in either engine, as with limit 0.
C28_NegativeLimitIsZero ==
    (cfg.limit < 0 /\ Loaded(Cur)) =>
        /\ Touched(Cur) = {}
        /\ Cur.to_process = <<>>
        /\ Cur.calls = <<>>

\* The same for limit 0.
C28_ZeroLimit ==
    (cfg.limit = 0 /\ Loaded(Cur)) =>
        /\ Touched(Cur) = {}
        /\ Cur.to_process = <<>>
        /\ Cur.calls = <<>>

\* With a negative limit the skip pass marks nothing.
C28_NegativeLimitSkipsNothing ==
    (cfg.limit < 0 /\ Loaded(Cur)) => SkippedInRun(Cur) = {}

\* C29: in the direct invocation no error of one recipient ends the run
\* once sending has begun: the run does not fail in Sending, and a run that
\* is over has stored every record the transport accepted as sent unless
\* the write itself failed.
C29_DirectSendingNeverAborts ==
    cfg.engine = "direct" =>
        /\ Cur.failedIn # "Sending"
        /\ (Cur.pc \in {"Done", "Failed"} /\ Cur.failedIn # "Persisting") =>
              \A i \in AcceptedIdx(Cur) :
                  i \in DOMAIN table.rows /\ table.rows[i]["sent_status"] = "sent"

\* The same when the error is one of the transport only.
C29_TransportErrorsOnly ==
    (cfg.engine = "direct" /\ \A i \in DOMAIN Cur.mem0 : ~DirectPrepareRaises(Cur, i)) =>
        C29_DirectSendingNeverAborts

\* The direct invocation ended in Sending after the transport had accepted
\* a message: the stored table shows that recipient as unprocessed.
C29_StrandedSend ==
    /\ cfg.engine = "direct" /\ Cur.failedIn = "Sending"
    /\ \E i \in AcceptedIdx(Cur) : table.rows[i]["sent_status"] = ""

\* Both invocations have completed their run.
BothDone == \A p \in Procs : run[p].pc = "Done"

\* C30: when two overlapping runs have both completed, every record for
\* which one of them made a transport call that was accepted is sent in the
\* stored table.
C30_NoLostUpdate ==
    BothDone =>
        \A p \in Procs : \A i \in AcceptedIdx(run[p]) :
            i \in DOMAIN table.rows /\ table.rows[i]["sent_status"] = "sent"

\* The same when the runs do not overlap: the second loads after the first
\* has written.
C30_SequentialRuns ==
    (prev.pc = "Done" /\ Cur.pc = "Done") =>
        \A i \in AcceptedIdx(prev) \cup AcceptedIdx(Cur) :
            i \in DOMAIN table.rows /\ table.rows[i]["sent_status"] = "sent"

\* Two completed overlapping runs of the event-driven engine, one of which
\* had its message to a recipient accepted, and the stored table shows that
\* recipient as failed.
C30_ErasedSend ==
    /\ cfg.engine = "lambda" /\ BothDone
    /\ \E i \in AcceptedIdx(run["p1"]) : table.rows[i]["sent_status"] = "failed"

\* Number of records of the stored table t whose status is empty.
UnprocessedCount(t) == Cardinality({i \in DOMAIN t.rows : t.rows[i]["sent_status"] = ""})

\* n - k, or 0 when that is negative.
Monus(n, k) == IF n > k THEN n - k ELSE 0

\* C31: with a limit >= 1 a completed run on a table with unprocessed
\* records stores a table with at least one unprocessed record fewer, so two
\* completed runs in succession leave at most what was there less two; a
\* run on a table without unprocessed records selects nothing, changes
\* nothing and makes no transport call.
C31_Progress ==
    /\ (cfg.limit >= 1 /\ Cur.pc = "Done" /\ UnprocessedCount(Cur.table0) > 0) =>
          UnprocessedCount(table) < UnprocessedCount(Cur.table0)
    /\ (cfg.limit >= 1 /\ Cur.pc = "Done" /\ prev.pc = "Done") =>
          /\ Cur.table0.rows = SaveRows(prev.mem)
          /\ UnprocessedCount(table) <= Monus(UnprocessedCount(prev.table0), 2)
    /\ (Loaded(Cur) /\ UnprocessedCount(Cur.table0) = 0) =>
          /\ Cur.unprocessed = <<>> /\ Cur.to_process = <<>>
          /\ Touched(Cur) = {} /\ Cur.calls = <<>>

\* Two completed runs with limit 1 took a table with two unprocessed
\* records to one with none; the second had its message refused.
C31_Witness ==
    /\ cfg.limit = 1 /\ prev.pc = "Done" /\ Cur.pc = "Done"
    /\ UnprocessedCount(prev.table0) = 2
    /\ UnprocessedCount(Cur.table0) = 1
    /\ UnprocessedCount(table) = 0
    /\ \E k \in DOMAIN Cur.calls : ~Cur.calls[k].ok

\* Subject and body are what every order of visiting the placeholders gives.
SameInEveryOrder ==
    \A o \in IterationOrders(tp.template_placeholders) :
        /\ PrepareSubject(tp.subject_template, tp.row_data, o) = tp.subject
        /\ PrepareBody(tp.html_template, tp.row_data, o) = tp.html_body

\* C32: the rendered subject and body do not depend on the order in which
\* the placeholders are substituted, and a substituted value that holds a
\* {name} token of another placeholder stays as it is.
C32_OrderIndependent ==
    tp.pc = "rendered" =>
        /\ SameInEveryOrder
        /\ TpNoNull =>
              /\ tp.subject = InPlace(TpSubjectUsed, tp.row_data, tp.template_placeholders)
              /\ tp.html_body = InPlace(tp.html_template, tp.row_data, tp.template_placeholders)

\* The same for records in which no referenced value holds a {name} token
\* of the template.
C32_OrderIndependentPlainValues ==
    (tp.pc = "rendered" /\ TpPlainValues) => SameInEveryOrder

\* Rendered with event = {name} and name = Ann, event visited first: the
\* body holds Ann where {event} stood, and the other order gives another body.
C32_OrderShows ==
    /\ tp.pc = "rendered"
    /\ tp.template_placeholders = {"event", "name"}
    /\ DOMAIN tp.row_data = SystemColumns \cup {"event", "name"}
    /\ tp.row_data["event"] = <<Ph("name")>>
    /\ tp.row_data["name"] = <<Txt("Ann")>>
    /\ tp.order = <<"event", "name">>
    /\ PrepareBody(tp.html_template, tp.row_data, <<"name", "event">>) # tp.html_body

\* The address the k-th transport call of the run was made for.
CallAddress(st, k) == st.mem0[st.calls[k].idx]["email"]

\* C33: within one run no two transport calls are made for the same address.
C33_OneCallPerAddress ==
    \A j \in DOMAIN Cur.calls : \A k \in DOMAIN Cur.calls :
        CallAddress(Cur, j) = CallAddress(Cur, k) => j = k

\* The same for tables in which no two unprocessed rows have the same address.
C33_DistinctRows ==
    (\A i \in UnprocessedSet(Cur) : \A j \in UnprocessedSet(Cur) :
        Cur.mem0[i]["email"] = Cur.mem0[j]["email"] => i = j)
    => C33_OneCallPerAddress

\* A run called the transport twice for a@x.y, once for each of two rows.
C33_TwoCalls ==
    /\ Len(Cur.calls) = 2
    /\ Cur.calls[1].idx # Cur.calls[2].idx
    /\ CallAddress(Cur, 1) = Addr_a /\ CallAddress(Cur, 2) = Addr_a

\* C34: when the operator declines the confirmation of the direct
\* invocation, the run has made no transport call and written nothing: the
\* stored table is the one it loaded, whatever the skip pass marked in
\* memory, and the run after it loads the records marked there as unprocessed.
C34_DeclineLeavesTable ==
    /\ Cur.pc = "Aborted" =>
          /\ cfg.engine = "direct"
          /\ Cur.calls = <<>> /\ Cur.writes = 0
          /\ Cur.result = Returned(0)
          /\ table = Cur.table0
          /\ Touched(Cur) = SkippedInRun(Cur)
    /\ (prev.pc = "Aborted" /\ Loaded(Cur)) =>
          /\ Cur.table0 = prev.table0
          /\ Cur.mem0 = prev.mem0
          /\ SkippedInRun(prev) \subseteq UnprocessedSet(Cur)

\* The operator declined a run whose skip pass had marked a record, and the
\* next run, confirmed and completed, marked the same record skipped again.
C34_Witness ==
    /\ prev.pc = "Aborted" /\ SkippedInRun(prev) # {}
    /\ Cur.pc = "Done"
    /\ SkippedInRun(prev) \subseteq SkippedInRun(Cur)
    /\ \A i \in SkippedInRun(prev) : prev.table0.rows[i]["sent_status"] = ""

====
